---- MODULE Spec2Model ----
(***************************************************************************)
(* Model of KleinanzeigenClient (src/src/kleinanzeigen_mcp/client.py):     *)
(* the browser lifecycle (start, close) and the two operations             *)
(* search_listings and get_listing_details, each cut at its awaits on the  *)
(* browser (new_context, new_page, goto, wait_for_selector, the DOM        *)
(* extraction, page.close, context.close).                                 *)
(***************************************************************************)
EXTENDS Integers, Sequences, FiniteSets, TLC

VARIABLES
    client,        \* the fields self.playwright and self.browser
    driver,        \* the Playwright driver process: "absent", "running", "stopped"
    browserProc,   \* the Chromium process: "absent", "open", "closed"
    lastStart,     \* the last start(): how it went, its launch attempts, what it raised
    lastClose,     \* the last close(): what it raised, and
                   \* how many close() calls were made since the last start()
    lifecycle,     \* [starts, closes]: how often start() and close() were called
    contexts,      \* per call, the browsing context it created: "none", "open", "closed"
    pages,         \* per call, the page it created in its context: "none", "open", "closed"
    location,      \* per call, the call whose page.goto last navigated its page
                   \* (0: the page is blank)
    ops,           \* per caller task: the frame of its operation on the client
    calls,         \* number of search_listings / get_listing_details calls made
    tool           \* the frame of the tool-layer entry point that uses the client

vars == <<client, driver, browserProc, lastStart, lastClose, lifecycle,
          contexts, pages, location, ops, calls, tool>>

----------------------------------------------------------------------------
(* Bounds of the model *)

MaxCalls == 2        \* operations called on the client in one behaviour
MaxTasks == 2        \* caller tasks that may have an operation in flight (SpecConc)
MaxLifecycle == 3    \* start() and close() calls in one behaviour
MaxPriceLen == 3     \* characters of a price text given to _parse_price (SpecPrice)
MaxTitleLen == 7     \* characters of a title text (SpecExtract)
MaxDescriptionLen == 5   \* characters of a description text (SpecExtract)

(* Program constants *)

MinPageCount == 1    \* client.py:87
MaxPageCount == 20   \* client.py:87

base_url == "https://www.kleinanzeigen.de"

\* Python's None, for an attribute or an element that is not there.
None == "<None>"

Truthy(x) == x # None /\ x # ""

----------------------------------------------------------------------------
(* The website: what a navigation finds.  A site gives, for every result   *)
(* page, its candidate fragments in document order, or the fact that the   *)
(* DOM query on that page raises.                                          *)

\* A candidate fragment: whether it has an article element, the article's
\* data-adid and data-href attributes, the text of its title element (None
\* when the element is missing) and its price element.
Fragment(article, adid, href, title) ==
    [article |-> article, data_adid |-> adid, data_href |-> href, title |-> title,
     price |-> [found |-> TRUE, text |-> <<"5", " ", "EUR">>]]

Good(p, i) ==
    Fragment(TRUE, "ad" \o ToString(p) \o "-" \o ToString(i),
             "/s-anzeige/" \o ToString(p) \o "-" \o ToString(i), "Title")

Sites == {"empty", "plenty", "partial", "gap", "broken1", "broken2", "dropped1"}

PageContent(site, p) ==
    CASE site = "empty"   -> [raises |-> FALSE, items |-> <<>>]
      [] site = "plenty"  -> [raises |-> FALSE, items |-> <<Good(p, 1), Good(p, 2)>>]
      [] site = "partial" ->
            [raises |-> FALSE,
             items |-> << Fragment(TRUE, None, "/s-anzeige/x", "NoId"),
                          Good(p, 2),
                          Fragment(TRUE, "idonly", None, None),
                          Fragment(FALSE, None, None, None),
                          Fragment(TRUE, "", "/s-anzeige/y", "EmptyId"),
                          Fragment(TRUE, "emptyhref", "", "EmptyHref"),
                          Fragment(TRUE, "untitled", "/s-anzeige/z", None) >>]
      [] site = "gap"     ->
            [raises |-> FALSE,
             items |-> IF p = 2 THEN <<>> ELSE <<Good(p, 1)>>]
      [] site = "broken1" ->
            [raises |-> p = 1, items |-> <<Good(p, 1)>>]
      [] site = "broken2" ->
            [raises |-> p = 2, items |-> <<Good(p, 1)>>]
      [] site = "dropped1" ->
            [raises |-> FALSE,
             items |-> IF p = 1 THEN <<Fragment(TRUE, None, None, None)>>
                                ELSE <<Good(p, 1)>>]

\* the searches tried by the callers: page_count arguments around and far
\* from both ends of the valid range, on the sites above
SearchInputs ==
    ({1, 2, 3} \X Sites) \cup ({-3, 0, 20, 21} \X {"plenty"}) \cup ({0, 25} \X {"gap"})
ConcPageCounts == {1}
ConcSites == {"plenty"}

\* An element of a listing page: found or not, and its inner text as a
\* sequence of characters.
Element(text) == [found |-> TRUE, text |-> text]
Missing == [found |-> FALSE, text |-> <<>>]

\* Texts are sequences of characters.  "BULLET" stands for the one character
\* U+2022, "EUR" for the euro sign and "oe" for o-umlaut.
Bullet == "BULLET"
Euro == "EUR"
Verkauft == <<"V", "e", "r", "k", "a", "u", "f", "t">>
ReserviertBullet == <<"R", "e", "s", "e", "r", "v", "i", "e", "r", "t", " ", Bullet>>
GeloeschtBullet == <<"G", "e", "l", "oe", "s", "c", "h", "t", " ", Bullet>>
BulletSeparator == <<" ", Bullet, " ">>
NurAbholung == <<"N", "u", "r", " ", "A", "b", "h", "o", "l", "u", "n", "g">>
Versand == <<"V", "e", "r", "s", "a", "n", "d">>
Rad == <<"R", "a", "d">>

\* the price texts: every text of up to MaxPriceLen characters out of
\* digits, the thousands dot, the euro sign, the letters of the VB token
\* and the space, and the text of the tests
PriceAlphabet == {"1", "2", ".", Euro, "V", "B", " "}

RECURSIVE TextsUpTo(_)
TextsUpTo(n) ==
    IF n = 0 THEN {<<>>}
    ELSE TextsUpTo(n - 1) \cup
         {Append(text, c) : text \in TextsUpTo(n - 1), c \in PriceAlphabet}

PriceTexts ==
    TextsUpTo(MaxPriceLen)
    \cup {<<"1", ".", "0", "0", "0", " ", Euro, " ", "V", "B">>}

\* every text of up to n characters out of an alphabet
RECURSIVE TextsOver(_, _)
TextsOver(alphabet, n) ==
    IF n = 0 THEN {<<>>}
    ELSE TextsOver(alphabet, n - 1) \cup
         {Append(text, c) : text \in TextsOver(alphabet, n - 1), c \in alphabet}

\* the title texts: letters, spaces and bullets in every arrangement
TitleTexts == TextsOver({"a", " ", Bullet}, MaxTitleLen)

\* the description texts: letters, spaces, tabs and line breaks in every
\* arrangement
DescriptionTexts == TextsOver({"a", " ", "\t", "\n"}, MaxDescriptionLen)

\* one item of an attribute block: its label and its value element
DetailItem(label, value) == [label |-> label, value |-> value]
\* an attribute block: the container element and the items in it
Block(found, items) == [found |-> found, items |-> items]

\* A listing page with every element in place.
FullPage ==
    [raises      |-> FALSE,
     id_box      |-> Element(<<" ", "4", "2", " ">>),
     breadcrumbs |-> <<<<"A">>, <<" ">>, <<" ", "B">>>>,
     title       |-> Element(Rad),
     badge_sold  |-> FALSE,
     price       |-> Element(<<"1", ".", "0", " ", Euro, " ", "V", "B">>),
     views       |-> Element(<<"9">>),
     description |-> Element(<<"a", " ", " ", "b", "\n", "\n", "c">>),
     images      |-> <<Element(<<"u">>), Missing, Element(<<>>)>>,
     shipping    |-> Element(Versand),
     locality    |-> Element(<<"K">>),
     seller_name |-> Element(<<"S">>),
     details     |-> Block(TRUE, <<DetailItem(Element(<<"k">>), Element(<<" ", "v">>)),
                                   DetailItem(Element(<<"m">>), Missing),
                                   DetailItem(Element(<<"k">>), Element(<<"w">>))>>),
     features    |-> Block(TRUE, <<DetailItem(Element(<<"f">>), Element(<<"g">>))>>)]

\* A listing page on which every optional element is missing.
BarePage ==
    [raises      |-> FALSE,
     id_box      |-> Missing,
     breadcrumbs |-> <<>>,
     title       |-> Missing,
     badge_sold  |-> FALSE,
     price       |-> Missing,
     views       |-> Missing,
     description |-> Missing,
     images      |-> <<>>,
     shipping    |-> Missing,
     locality    |-> Missing,
     seller_name |-> Missing,
     details     |-> Block(FALSE, <<>>),
     features    |-> Block(FALSE, <<>>)]

\* listing pages: complete, bare, or with a DOM query that raises
DetailPages == { FullPage, BarePage, [BarePage EXCEPT !.raises = TRUE] }

\* the titles of listing pages: no marker, each marker, and markers together
Titles ==
    { Element(Rad),
      Element(Verkauft \o <<" ">> \o Rad),
      Element(ReserviertBullet \o <<" ">> \o Rad),
      Element(GeloeschtBullet \o <<" ">> \o Rad),
      Element(ReserviertBullet \o <<" ">> \o Verkauft),
      Element(GeloeschtBullet \o <<" ">> \o Verkauft),
      Element(ReserviertBullet \o <<" ">> \o GeloeschtBullet \o <<" ">> \o Rad),
      Element(GeloeschtBullet \o <<" ">> \o ReserviertBullet \o <<" ">> \o Verkauft),
      Element(<<"A", " ", ">", " ", "B">> \o BulletSeparator \o Rad \o <<" ">>),
      Missing }

\* listing pages that differ in the text of the title or of the description
ExtractPages ==
    {[FullPage EXCEPT !.title = Element(text)] : text \in TitleTexts}
    \cup {[FullPage EXCEPT !.description = Element(text)] : text \in DescriptionTexts}
    \cup {BarePage}

\* listing pages that differ in what decides the status, in the elements
\* that are there, and in the id they show
RichDetailPages ==
    { [FullPage EXCEPT !.title = title, !.badge_sold = badge] :
         title \in Titles, badge \in BOOLEAN }
    \cup { [BarePage EXCEPT !.badge_sold = badge] : badge \in BOOLEAN }
    \cup { [FullPage EXCEPT !.id_box = id_box] :
              id_box \in {Missing, Element(<<"7">>), Element(<<"\n", "7", " ">>)} }
    \cup { [BarePage EXCEPT !.locality = Element(<<" ">>),
                            !.seller_name = Element(<<>>),
                            !.details = Block(TRUE, <<>>),
                            !.features = Block(FALSE, <<DetailItem(Element(<<"f">>), Element(<<"g">>))>>),
                            !.images = <<Missing>>,
                            !.breadcrumbs = <<<<" ">>>>],
            [BarePage EXCEPT !.raises = TRUE] }
ListingIds == { <<"4", "2">>, <<"7">> }
ConcDetailPages == { [FullPage EXCEPT !.id_box = Element(<<"7">>)] }
ConcListingIds == { <<"7">> }

----------------------------------------------------------------------------
(* Exceptions and results as the caller sees them *)

Returned(v) == [kind |-> "return", value |-> v]
Raised(k)   == [kind |-> k, value |-> <<>>]
RaisedWith(k, message) == [kind |-> k, value |-> message]
NoOutcome   == [kind |-> "none", value |-> <<>>]

\* "Error" is an exception of Playwright that is not a KleinanzeigenError.
ErrorKinds == {"SearchError", "DetailFetchError", "Error"}

Tasks == 1..MaxTasks
CallIds == 1..MaxCalls

\* closing a context or a page that exists
Closed(state) == IF state = "none" THEN "none" ELSE "closed"

\* no tool-layer entry point called
IdleTool == [pc |-> "idle", name |-> "none", outcome |-> NoOutcome]

IdleOp ==
    [kind |-> "none", call |-> 0, pc |-> "ready", started |-> FALSE,
     requested |-> 0, page_count |-> 0, page_num |-> 0, site |-> "empty",
     listing_id |-> <<>>, detail_page |-> BarePage, price_text |-> <<>>,
     content |-> [raises |-> FALSE, items |-> <<>>],
     filters |-> [query |-> None, location |-> None, radius |-> <<>>,
                  min_price |-> <<>>, max_price |-> <<>>],
     results |-> <<>>, page_results |-> <<>>, context |-> 0, page |-> 0,
     gotoLog |-> <<>>, failedNav |-> 0, navFailed |-> FALSE,
     extracted |-> 0, released |-> <<>>, cause |-> "none", timedOut |-> FALSE,
     cancelled |-> FALSE,
     pending |-> NoOutcome, outcome |-> NoOutcome]

Init ==
    /\ client = [playwright |-> None, browser |-> None]
    /\ driver = "absent"
    /\ browserProc = "absent"
    /\ lastStart = [how |-> "none", attempts |-> 0, raised |-> "none"]
    /\ lastClose = [raised |-> "none", row |-> 0]
    /\ lifecycle = [starts |-> 0, closes |-> 0]
    /\ contexts = [c \in CallIds |-> "none"]
    /\ pages = [c \in CallIds |-> "none"]
    /\ location = [c \in CallIds |-> 0]
    /\ ops = [t \in Tasks |-> IdleOp]
    /\ calls = 0
    /\ tool = IdleTool

----------------------------------------------------------------------------
(* Browser lifecycle *)

\* line 44: what start() raises for any exception of its try block
StartRaises == "SearchError"

\* line 37: chromium.launch is called once, after the driver has come up
LaunchAttempts(how) == IF how = "driver_fails" THEN 0 ELSE 1

\* start(), lines 33-44.  how = "ok": driver and browser come up;
\* "driver_fails": async_playwright().start() raises; "launch_fails":
\* chromium.launch raises.

Start ==
    /\ lifecycle.starts + lifecycle.closes < MaxLifecycle
    /\ browserProc # "open"
    /\ \A t \in Tasks : ops[t].pc \in {"ready", "done"}
    /\ lifecycle' = [lifecycle EXCEPT !.starts = @ + 1]
    /\ \E how \in {"ok", "driver_fails", "launch_fails"} :
         /\ client' = [playwright |-> IF how = "driver_fails" THEN client.playwright
                                      ELSE "Playwright",
                       browser    |-> IF how = "ok" THEN "Browser" ELSE client.browser]
         /\ driver' = IF how = "driver_fails" THEN driver ELSE "running"
         /\ browserProc' = IF how = "ok" THEN "open" ELSE browserProc
         /\ lastStart' = [how |-> how, attempts |-> LaunchAttempts(how),
                          raised   |-> IF how = "ok" THEN "none" ELSE StartRaises]
    /\ lastClose' = [lastClose EXCEPT !.row = 0]
    /\ UNCHANGED <<contexts, pages, location, ops, calls>>

\* an except clause that lets the exception through
ClosePropagates(error) == error

\* lines 54-55: "except Exception as e" logs the exception of the try block
CloseCatches(error) == "none"

\* close(), lines 46-55.  browser.close() closes every context and page of
\* the browser; an exception of browser.close() or playwright.stop() is
\* logged, and one of browser.close() skips playwright.stop().  The fields
\* self.browser and self.playwright keep their values.
Close ==
    /\ lifecycle.starts + lifecycle.closes < MaxLifecycle
    /\ \A t \in Tasks : ops[t].pc \in {"ready", "done"}
    /\ lifecycle' = [lifecycle EXCEPT !.closes = @ + 1]
    /\ \E closeFails \in BOOLEAN, stopFails \in BOOLEAN :
         LET closing  == Truthy(client.browser)
             closed   == closing /\ ~closeFails
             stopping == Truthy(client.playwright) /\ ~(closing /\ closeFails)
             error    == IF (closing /\ closeFails) \/ (stopping /\ stopFails)
                         THEN "Error" ELSE "none"
         IN  /\ browserProc' = IF closed THEN "closed" ELSE browserProc
             /\ contexts' = IF closed
                            THEN [i \in CallIds |-> Closed(contexts[i])]
                            ELSE contexts
             /\ pages' = IF closed
                         THEN [i \in CallIds |-> Closed(pages[i])]
                         ELSE pages
             /\ driver' = IF stopping /\ ~stopFails THEN "stopped" ELSE driver
             /\ lastClose' = [raised |-> CloseCatches(error),
                              row |-> lastClose.row + 1]
    /\ UNCHANGED <<client, lastStart, location, ops, calls>>

----------------------------------------------------------------------------
(* search_listings and get_listing_details *)

Min(a, b) == IF a < b THEN a ELSE b
Max(a, b) == IF a > b THEN a ELSE b

\* only the upper end clamped
ValidateUpperOnly(page_count) == Min(MaxPageCount, page_count)

\* lines 86-89
ValidatePageCount(page_count) ==
    IF page_count < MinPageCount \/ page_count > MaxPageCount
    THEN Max(MinPageCount, Min(MaxPageCount, page_count))
    ELSE page_count

\* the check left out
BrowserNeverChecked == FALSE

\* lines 83 and 204: "if not self.browser"
BrowserNotInitialized == ~Truthy(client.browser)

\* The error kind an operation wraps its failures in (lines 141, 230).
OwnError(kind) == IF kind = "search" THEN "SearchError" ELSE "DetailFetchError"

\* An Optional[int] argument: <<>> for None, <<n>> for the integer n.
NoInt == <<>>
IsNone(x) == x = NoInt
\* truth value of an Optional[int]: None and 0 are false
TruthyInt(x) == ~IsNone(x) /\ x[1] # 0

\* lines 92-96: the price segment of the path
PricePath(min_price, max_price) ==
    IF ~IsNone(min_price) \/ ~IsNone(max_price)
    THEN <<"/preis:",
           IF ~IsNone(min_price) THEN ToString(min_price[1]) ELSE "",
           ":",
           IF ~IsNone(max_price) THEN ToString(max_price[1]) ELSE "">>
    ELSE <<>>

\* lines 106-107: "if radius:"
RadiusParam(radius) ==
    IF TruthyInt(radius) THEN <<<<"radius", ToString(radius[1])>>>> ELSE <<>>

\* lines 101-107: the query parameters, in the order of insertion
Params(filters) ==
    (IF Truthy(filters.query) THEN <<<<"keywords", filters.query>>>> ELSE <<>>)
    \o (IF Truthy(filters.location) THEN <<<<"locationStr", filters.location>>>> ELSE <<>>)
    \o RadiusParam(filters.radius)

\* lines 91-109: the search URL as its path segments and its query parameters
SearchUrl(filters) ==
    [base       |-> base_url,
     price_path |-> PricePath(filters.min_price, filters.max_price),
     page_path  |-> "/s-seite:{page}",
     params     |-> Params(filters)]

\* search_listings up to its first await, lines 83-111
SearchCall(t, page_count, site) ==
    /\ ops[t].pc \in {"ready", "done"}
    /\ calls < MaxCalls
    /\ calls' = calls + 1
    /\ ops' = [ops EXCEPT ![t] =
         IF BrowserNotInitialized
         THEN [IdleOp EXCEPT !.kind = "search", !.call = calls + 1,
                             !.requested = page_count, !.site = site,
                             !.pc = "done", !.outcome = Raised("SearchError")]
         ELSE [IdleOp EXCEPT !.kind = "search", !.call = calls + 1,
                             !.requested = page_count, !.site = site,
                             !.started = TRUE,
                             !.page_count = ValidatePageCount(page_count),
                             !.pc = "new_context"]]
    /\ UNCHANGED <<client, driver, browserProc, lastStart, lastClose, lifecycle,
                   contexts, pages, location>>

\* get_listing_details up to its first await, lines 204-207
DetailsCall(t, listing_id, detail_page) ==
    /\ ops[t].pc \in {"ready", "done"}
    /\ calls < MaxCalls
    /\ calls' = calls + 1
    /\ ops' = [ops EXCEPT ![t] =
         IF BrowserNotInitialized
         THEN [IdleOp EXCEPT !.kind = "details", !.call = calls + 1,
                             !.listing_id = listing_id, !.detail_page = detail_page,
                             !.pc = "done", !.outcome = Raised("DetailFetchError")]
         ELSE [IdleOp EXCEPT !.kind = "details", !.call = calls + 1,
                             !.listing_id = listing_id, !.detail_page = detail_page,
                             !.started = TRUE,
                             !.pc = "new_context"]]
    /\ UNCHANGED <<client, driver, browserProc, lastStart, lastClose, lifecycle,
                   contexts, pages, location>>

\* An exception that leaves the operation outside its try statement, or out
\* of its finally clause: it reaches the caller as it is.
Escapes(t, kind) ==
    [ops EXCEPT ![t].pc = "done", ![t].outcome = Raised(kind)]

\* context = await self.browser.new_context(...), lines 112-114 and 208-210:
\* before the try statement
NewContext(t) ==
    /\ ops[t].pc = "new_context"
    /\ \E ok \in BOOLEAN :
         IF ok /\ browserProc = "open"
         THEN /\ contexts' = [contexts EXCEPT ![ops[t].call] = "open"]
              /\ ops' = [ops EXCEPT ![t].context = ops[t].call,
                                    ![t].pc = "new_page"]
         ELSE /\ ops' = Escapes(t, "Error")
              /\ UNCHANGED contexts
    /\ UNCHANGED <<client, driver, browserProc, lastStart, lastClose, lifecycle,
                   pages, location, calls>>

\* page = await context.new_page(), lines 115 and 211: before the try
\* statement; then into the loop "for page_num in range(1, page_count + 1)",
\* line 118, which an empty range leaves at once for "return results"
NewPage(t) ==
    /\ ops[t].pc = "new_page"
    /\ \E ok \in BOOLEAN :
         IF ok /\ contexts[ops[t].context] = "open"
         THEN /\ pages' = [pages EXCEPT ![ops[t].call] = "open"]
              /\ ops' = IF ops[t].kind = "search" /\ ops[t].page_count < 1
                        THEN [ops EXCEPT ![t].page = ops[t].call,
                                         ![t].pending = Returned(<<>>),
                                         ![t].pc = "page_close"]
                        ELSE [ops EXCEPT ![t].page = ops[t].call,
                                         ![t].page_num = 1,
                                         ![t].pc = "goto"]
         ELSE /\ ops' = Escapes(t, "Error")
              /\ UNCHANGED pages
    /\ UNCHANGED <<client, driver, browserProc, lastStart, lastClose, lifecycle,
                   contexts, location, calls>>

\* the message of the error an operation wraps a cause in, lines 141 and 230:
\* f"Failed to search listings: {e}", f"Failed to fetch listing {listing_id}: {e}"
Message(kind, listing_id, cause) ==
    IF kind = "search"
    THEN <<"Failed to search listings: ", cause>>
    ELSE <<"Failed to fetch listing ">> \o listing_id \o <<": ", cause>>

\* The except clause, lines 139-141 and 228-230, then on to the finally clause.
Fails(t, cause) ==
    [ops EXCEPT ![t].pending = RaisedWith(OwnError(ops[t].kind),
                                          Message(ops[t].kind, ops[t].listing_id, cause)),
                ![t].cause = cause,
                ![t].pc = "page_close"]

\* what page.goto may raise: an error of the navigation, or its timeout
GotoErrors == {"Error", "TimeoutError"}

\* the pages that "await page.goto(...)" of task t navigates
PagesToNavigate(t) == {ops[t].page}

\* await page.goto(...), lines 122 and 215; the listing page counts as page 1
Goto(t) ==
    /\ ops[t].pc = "goto"
    /\ \E result \in {"ok"} \cup GotoErrors :
             IF result = "ok" /\ pages[ops[t].page] = "open"
             THEN /\ ops' = [ops EXCEPT ![t].gotoLog = Append(@, ops[t].page_num),
                                        ![t].pc = "wait_for_selector"]
                  /\ location' = [i \in CallIds |->
                                    IF i \in PagesToNavigate(t) THEN ops[t].call
                                    ELSE location[i]]
             ELSE /\ ops' = [Fails(t, IF result = "ok" THEN "Error" ELSE result)
                               EXCEPT ![t].gotoLog = Append(@, ops[t].page_num),
                                             ![t].failedNav = ops[t].page_num,
                                             ![t].navFailed = TRUE]
                  /\ UNCHANGED location
    /\ UNCHANGED <<client, driver, browserProc, lastStart, lastClose, lifecycle,
                   contexts, pages, calls>>

\* a timeout of the wait taken as a failure of the operation
TimeoutIsFatal(t, timedOut) ==
    IF timedOut THEN Fails(t, "TimeoutError")
    ELSE [ops EXCEPT ![t].timedOut = timedOut, ![t].pc = "extract"]

\* lines 124-127 and 218-221: the wait in a try statement of its own, whose
\* except clause logs the timeout; on to the extraction in both cases
AfterWait(t, timedOut) ==
    [ops EXCEPT ![t].timedOut = timedOut, ![t].pc = "extract"]

\* await page.wait_for_selector(...), lines 125 and 219: the element shows
\* up in time, or the wait times out; until the extraction has run, timedOut
\* tells which
WaitForSelector(t) ==
    /\ ops[t].pc = "wait_for_selector"
    /\ \E timedOut \in BOOLEAN :
         ops' = AfterWait(t, timedOut)
    /\ UNCHANGED <<client, driver, browserProc, lastStart, lastClose, lifecycle,
                   contexts, pages, location, calls>>

Whitespace == {" ", "\t", "\n"}

RECURSIVE LStrip(_)
LStrip(text) ==
    IF text # <<>> /\ Head(text) \in Whitespace THEN LStrip(Tail(text)) ELSE text

RECURSIVE RStrip(_)
RStrip(text) ==
    IF text # <<>> /\ text[Len(text)] \in Whitespace
    THEN RStrip(SubSeq(text, 1, Len(text) - 1)) ELSE text

\* str.strip()
Strip(text) == RStrip(LStrip(text))

\* "pattern in text"
Contains(text, pattern) ==
    \E i \in 1..(Len(text) - Len(pattern) + 1) :
        SubSeq(text, i, i + Len(pattern) - 1) = pattern

StartsWith(text, pattern) ==
    Len(text) >= Len(pattern) /\ SubSeq(text, 1, Len(pattern)) = pattern

\* text.replace(pattern, ""): the occurrences found from left to right,
\* none overlapping another, are removed in one pass
RECURSIVE Remove(_, _)
Remove(text, pattern) ==
    IF text = <<>> THEN <<>>
    ELSE IF StartsWith(text, pattern)
         THEN Remove(SubSeq(text, Len(pattern) + 1, Len(text)), pattern)
         ELSE <<Head(text)>> \o Remove(Tail(text), pattern)

\* "or" for "and"
HasIdOrHref(data_adid, data_href) == Truthy(data_adid) \/ Truthy(data_href)

\* line 175: "if data_adid and data_href"
HasIdentity(data_adid, data_href) == Truthy(data_adid) /\ Truthy(data_href)

\* lines 164-169: the price text of a fragment, "" without price element
SummaryPrice(price_element) ==
    IF price_element.found
    THEN Strip(Remove(Remove(Remove(price_element.text, <<Euro>>), <<"V", "B">>),
                      <<".">>))
    ELSE <<>>

\* ListingSummary(...), lines 176-183; a missing title element gives ""
ListingSummary(item) ==
    [adid  |-> item.data_adid,
     url   |-> base_url \o item.data_href,
     title |-> IF item.title = None THEN "" ELSE item.title,
     price |-> SummaryPrice(item.price)]

\* the loop over the items, lines 152-183
RECURSIVE ExtractItems(_)
ExtractItems(items) ==
    IF items = <<>> THEN <<>>
    ELSE LET item == Head(items)
             rest == ExtractItems(Tail(items))
         IN  IF ~item.article THEN rest
             ELSE IF HasIdentity(item.data_adid, item.data_href)
                  THEN <<ListingSummary(item)>> \o rest
                  ELSE rest

\* _extract_listings_from_page, lines 146-189: an exception gives []
ExtractListingsFromPage(content) ==
    IF content.raises THEN <<>> ELSE ExtractItems(content.items)

\* the exit taken at the first empty page, whichever it is
NoResultsOnAnyPage(page_results, page_num) ==
    page_results = <<>>

\* line 132: "if not page_results and page_num == 1"
NoResultsOnFirstPage(page_results, page_num) ==
    page_results = <<>> /\ page_num = 1

\* the page's items put in front
Prepend(results, page_results) == page_results \o results

\* line 130: results.extend(page_results)
Extend(results, page_results) == results \o page_results

\* lines 129-137: extraction of one page, the early exit and the loop's end
ExtractPage(t) ==
    /\ ops[t].pc = "extract"
    /\ ops[t].kind = "search"
    /\ LET op == ops[t]
           page_results == ExtractListingsFromPage(PageContent(op.site, op.page_num))
           results == Extend(op.results, page_results)
           seen == [ops EXCEPT ![t].results = results,
                               ![t].page_results = page_results,
                               ![t].timedOut = FALSE,
                               ![t].extracted = op.page_num]
       IN  IF NoResultsOnFirstPage(page_results, op.page_num)
              \/ op.page_num >= op.page_count
           THEN ops' = [seen EXCEPT ![t].pending = Returned(results),
                                    ![t].pc = "page_close"]
           ELSE ops' = [seen EXCEPT ![t].page_num = op.page_num + 1,
                                    ![t].pc = "goto"]
    /\ UNCHANGED <<client, driver, browserProc, lastStart, lastClose, lifecycle,
                   contexts, pages, location, calls>>


\* the inner text as it is
get_text_unstripped(element, default) ==
    IF element.found THEN element.text ELSE default

\* get_text, lines 238-243
get_text(element, default) ==
    IF element.found THEN Strip(element.text) ELSE default

\* Python values of the record fields that are collections or may be None
List(items) == [type |-> "list", items |-> items]
Dict(items) == [type |-> "dict", items |-> items]
Str(text)   == [type |-> "str", items |-> text]
NoneValue   == [type |-> "None", items |-> <<>>]

\* text.split(separator)[-1]
RECURSIVE LastPiece(_, _)
LastPiece(text, separator) ==
    IF ~Contains(text, separator) THEN text
    ELSE LET i == CHOOSE k \in 1..Len(text) :
                     /\ StartsWith(SubSeq(text, k, Len(text)), separator)
                     /\ \A j \in 1..(k - 1) :
                           ~StartsWith(SubSeq(text, j, Len(text)), separator)
         IN  LastPiece(SubSeq(text, i + Len(separator), Len(text)), separator)

\* get_texts, lines 245-252
RECURSIVE get_texts(_)
get_texts(texts) ==
    IF texts = <<>> THEN <<>>
    ELSE IF Strip(Head(texts)) # <<>>
         THEN <<Strip(Head(texts))>> \o get_texts(Tail(texts))
         ELSE get_texts(Tail(texts))

\* the first matching branch only
TitleStatusSoldOnly(title_text) ==
    IF Contains(title_text, Verkauft) THEN "sold" ELSE "active"

\* lines 263-269: the if / elif chain over the title text
TitleStatus(title_text) ==
    IF Contains(title_text, Verkauft) THEN "sold"
    ELSE IF Contains(title_text, ReserviertBullet) THEN "reserved"
    ELSE IF Contains(title_text, GeloeschtBullet) THEN "deleted"
    ELSE "active"

\* the badge looked at only when the title says nothing
BadgeAfterTitle(title_status, badge_sold) ==
    IF title_status = "active" /\ badge_sold THEN "sold" ELSE title_status

\* lines 271-272: "if await page.query_selector(".badge-sold")"
BadgeStatus(title_status, badge_sold) ==
    IF badge_sold THEN "sold" ELSE title_status

\* lines 259-272
Status(detail_page) ==
    BadgeStatus(IF detail_page.title.found
                THEN TitleStatus(detail_page.title.text)
                ELSE "active",
                detail_page.badge_sold)

\* the last piece as the split leaves it
CleanTitleUntrimmed(title) ==
    IF Contains(title, BulletSeparator)
    THEN LastPiece(title, BulletSeparator)
    ELSE title

\* lines 275-276
CleanTitle(title) ==
    IF Contains(title, BulletSeparator)
    THEN Strip(LastPiece(title, BulletSeparator))
    ELSE title

\* the dots left in
parse_price_with_dots(price_text) ==
    IF price_text = <<>> THEN NoneValue
    ELSE LET cleaned == Strip(Remove(Remove(price_text, <<Euro>>), <<"V", "B">>))
         IN  IF cleaned # <<>> THEN Str(cleaned) ELSE NoneValue

\* _parse_price, lines 359-368
parse_price(price_text) ==
    IF price_text = <<>> THEN NoneValue
    ELSE LET cleaned == Strip(Remove(Remove(Remove(price_text, <<Euro>>),
                                            <<"V", "B">>), <<".">>))
         IN  IF cleaned # <<>> THEN Str(cleaned) ELSE NoneValue

\* re.sub(r'[ \t]+', ' ', text)
RECURSIVE CollapseBlanks(_)
CollapseBlanks(text) ==
    IF text = <<>> THEN <<>>
    ELSE IF Head(text) \in {" ", "\t"}
         THEN IF Len(text) > 1 /\ text[2] \in {" ", "\t"}
              THEN CollapseBlanks(Tail(text))
              ELSE <<" ">> \o CollapseBlanks(Tail(text))
         ELSE <<Head(text)>> \o CollapseBlanks(Tail(text))

\* re.sub(r'\n+', '\n', text)
RECURSIVE CollapseNewlines(_)
CollapseNewlines(text) ==
    IF text = <<>> THEN <<>>
    ELSE IF Head(text) = "\n" /\ Len(text) > 1 /\ text[2] = "\n"
         THEN CollapseNewlines(Tail(text))
         ELSE <<Head(text)>> \o CollapseNewlines(Tail(text))

\* lines 285-289
NormalizeDescription(description) ==
    IF description # <<>>
    THEN CollapseNewlines(Strip(CollapseBlanks(description)))
    ELSE description

\* lines 291-297: the src attributes that are there and not empty
RECURSIVE ImageSources(_)
ImageSources(images) ==
    IF images = <<>> THEN <<>>
    ELSE IF Head(images).found /\ Head(images).text # <<>>
         THEN <<Head(images).text>> \o ImageSources(Tail(images))
         ELSE ImageSources(Tail(images))

\* lines 299-306
Shipping(shipping_text) ==
    IF shipping_text = <<>> THEN NoneValue
    ELSE IF Contains(shipping_text, NurAbholung) THEN Str(<<"pickup">>)
    ELSE IF Contains(shipping_text, Versand) THEN Str(<<"shipping">>)
    ELSE NoneValue

\* a location that is None when there is no text
LocationOrNone(location_text) ==
    IF location_text # <<>> THEN Dict(<< <<"raw", location_text>> >>) ELSE NoneValue

\* lines 309-310
Location(location_text) ==
    IF location_text # <<>> THEN Dict(<< <<"raw", location_text>> >>) ELSE Dict(<<>>)

\* lines 313-316
Seller(seller_name) ==
    IF seller_name # <<>> THEN Dict(<< <<"name", seller_name>> >>) ELSE Dict(<<>>)

\* mapping[label] = value: a label already there keeps its place
Put(items, label, value) ==
    IF \E i \in DOMAIN items : items[i][1] = label
    THEN [i \in DOMAIN items |->
            IF items[i][1] = label THEN <<label, value>> ELSE items[i]]
    ELSE Append(items, <<label, value>>)

\* the loops of lines 322-328 and 334-340
RECURSIVE PutAll(_, _)
PutAll(items, block_items) ==
    IF block_items = <<>> THEN items
    ELSE LET item == Head(block_items)
         IN  IF item.label.found /\ item.value.found
             THEN PutAll(Put(items, Strip(item.label.text), Strip(item.value.text)),
                         Tail(block_items))
             ELSE PutAll(items, Tail(block_items))

\* lines 318-340: details and features
Attributes(block) ==
    IF block.found THEN Dict(PutAll(<<>>, block.items)) ELSE Dict(<<>>)

\* _extract_listing_details, lines 235-357
ExtractListingDetails(detail_page) ==
    [id          |-> get_text(detail_page.id_box, <<"[ERROR] ID not found">>),
     categories  |-> List(get_texts(detail_page.breadcrumbs)),
     title       |-> CleanTitle(get_text(detail_page.title, <<"[ERROR] Title not found">>)),
     status      |-> Status(detail_page),
     price       |-> parse_price(get_text(detail_page.price, <<>>)),
     delivery    |-> Shipping(get_text(detail_page.shipping, <<>>)),
     location    |-> Location(get_text(detail_page.locality, <<>>)),
     views       |-> get_text(detail_page.views, <<"0">>),
     description |-> NormalizeDescription(get_text(detail_page.description, <<>>)),
     images      |-> List(ImageSources(detail_page.images)),
     details     |-> Attributes(detail_page.details),
     features    |-> Attributes(detail_page.features),
     seller      |-> Seller(get_text(detail_page.seller_name, <<>>)),
     extra_info  |-> Dict(<<>>)]

\* lines 224-230: extraction of the listing page
ExtractDetails(t) ==
    /\ ops[t].pc = "extract"
    /\ ops[t].kind = "details"
    /\ ops' = IF ops[t].detail_page.raises
              THEN [Fails(t, "Error") EXCEPT ![t].timedOut = FALSE]
              ELSE [ops EXCEPT ![t].pending =
                                   Returned(<<ExtractListingDetails(ops[t].detail_page)>>),
                               ![t].timedOut = FALSE,
                               ![t].extracted = 1,
                               ![t].pc = "page_close"]
    /\ UNCHANGED <<client, driver, browserProc, lastStart, lastClose, lifecycle,
                   contexts, pages, location, calls>>

\* every open page of the browser closed, instead of the operation's own
AllOpenPages(t) == {c \in CallIds : pages[c] = "open"}

\* the pages that "await page.close()" of task t closes
PagesToClose(t) == {ops[t].page}

\* the contexts that "await context.close()" of task t closes
ContextsToClose(t) == {ops[t].context}

\* finally: await page.close(), lines 143 and 232.  An exception of it leaves
\* the page open and leaves the finally clause, so context.close() does not run.
PageClose(t) ==
    /\ ops[t].pc = "page_close"
    /\ \E ok \in BOOLEAN :
         /\ pages' = [i \in CallIds |->
                        IF ok /\ i \in PagesToClose(t)
                        THEN Closed(pages[i]) ELSE pages[i]]
         /\ ops' = IF ok
                   THEN [ops EXCEPT ![t].released = Append(@, "page"),
                                    ![t].pc = "context_close"]
                   ELSE Escapes(t, "Error")
    /\ UNCHANGED <<client, driver, browserProc, lastStart, lastClose, lifecycle,
                   contexts, location, calls>>

\* finally: await context.close(), lines 144 and 233; then the pending return
\* or exception of the try statement takes effect.
ContextClose(t) ==
    /\ ops[t].pc = "context_close"
    /\ \E ok \in BOOLEAN :
         /\ contexts' = [i \in CallIds |->
                           IF ok /\ i \in ContextsToClose(t)
                           THEN Closed(contexts[i]) ELSE contexts[i]]
         /\ pages' = [i \in CallIds |->
                        IF ok /\ i \in ContextsToClose(t)
                        THEN Closed(pages[i]) ELSE pages[i]]
         /\ ops' = IF ok
                   THEN [ops EXCEPT ![t].released = Append(@, "context"),
                                    ![t].outcome = ops[t].pending,
                                    ![t].pc = "done"]
                   ELSE Escapes(t, "Error")
    /\ UNCHANGED <<client, driver, browserProc, lastStart, lastClose, lifecycle,
                   location, calls>>

\* The except clauses around the await the operation is suspended at, from
\* the innermost: "except Exception" (lines 126, 139, 187, 228) lets
\* asyncio.CancelledError, a BaseException, pass; the bare "except:" around
\* the wait for the view counter (line 220) catches it.
CatchesCancellation(kind, pc) == kind = "details" /\ pc = "wait_for_selector"

\* The calling task is cancelled while the operation is suspended in its
\* navigation, its element wait or its DOM query: the await raises
\* CancelledError, which either ends the try statement and runs the finally
\* clause, or is caught and logged as a counter that did not appear.
Cancel(t) ==
    /\ ops[t].pc \in {"goto", "wait_for_selector", "extract"}
    /\ ~ops[t].cancelled
    /\ ops' = IF CatchesCancellation(ops[t].kind, ops[t].pc)
              THEN [ops EXCEPT ![t].cancelled = TRUE,
                               ![t].timedOut = FALSE,
                               ![t].pc = "extract"]
              ELSE [ops EXCEPT ![t].cancelled = TRUE,
                               ![t].timedOut = FALSE,
                               ![t].pending = Raised("CancelledError"),
                               ![t].pc = "page_close"]
    /\ UNCHANGED <<client, driver, browserProc, lastStart, lastClose, lifecycle,
                   contexts, pages, location, calls>>

----------------------------------------------------------------------------
(* One step of an operation in flight *)

Step(t) ==
    \/ NewContext(t)
    \/ NewPage(t)
    \/ Goto(t)
    \/ WaitForSelector(t)
    \/ ExtractPage(t)
    \/ ExtractDetails(t)
    \/ PageClose(t)
    \/ ContextClose(t)

----------------------------------------------------------------------------
(* The tool layer, tools/listings.py: _search_listings_impl and            *)
(* _get_listing_details_impl.  Each makes a client of its own, enters      *)
(* "async with KleinanzeigenClient() as client", calls one operation in a  *)
(* try statement inside it, and returns a text.                            *)

\* the searches and listings asked for through the tool layer
ToolSearchInputs == {<<1, "plenty">>, <<1, "empty">>, <<2, "gap">>, <<2, "broken1">>}
ToolListingIds == ConcListingIds
ToolDetailPages == DetailPages

\* lines 180 and 233: __aenter__ awaits start() (client.py:24-27) before the
\* try statement of the entry point; an exception of start() leaves the
\* entry point, and __aexit__ is not called.
ToolEnter(name) ==
    /\ tool.pc = "idle"
    /\ Start
    /\ tool' = IF lastStart'.raised = "none"
               THEN [tool EXCEPT !.pc = "entered", !.name = name]
               ELSE [pc |-> "done", name |-> name,
                     outcome |-> Raised(lastStart'.raised)]

\* lines 182-189: await client.search_listings(...)
ToolSearch(page_count, site) ==
    /\ tool.pc = "entered" /\ tool.name = "search_listings"
    /\ SearchCall(1, page_count, site)
    /\ tool' = [tool EXCEPT !.pc = "called"]

\* line 235: await client.get_listing_details(listing_id)
ToolDetails(listing_id, detail_page) ==
    /\ tool.pc = "entered" /\ tool.name = "get_listing_details"
    /\ DetailsCall(1, listing_id, detail_page)
    /\ tool' = [tool EXCEPT !.pc = "called"]

\* the operation of the client runs to its end
ToolAwait ==
    /\ tool.pc = "called"
    /\ Step(1)
    /\ UNCHANGED tool

\* lines 191-228 and 237-305: the text made of what the operation returned,
\* or by "except Exception as e" of what it raised
RenderText(name, outcome) ==
    IF outcome.kind = "return"
    THEN IF name = "search_listings"
         THEN IF outcome.value = <<>>
              THEN <<"No listings found for search">>
              ELSE <<"Found", Len(outcome.value), "listings:">>
         ELSE <<"=== LISTING DETAILS ===">>
    ELSE IF name = "search_listings"
         THEN <<"Search error:", outcome.kind>>
         ELSE <<"Error fetching listing", outcome.kind>>

\* the return statement, then __aexit__, which awaits close() (client.py:
\* 29-31): an exception of close() would replace the text
ToolExit ==
    /\ tool.pc = "called"
    /\ ops[1].pc = "done"
    /\ Close
    /\ tool' = [tool EXCEPT
                  !.pc = "done",
                  !.outcome = IF lastClose'.raised = "none"
                              THEN Returned(RenderText(tool.name, ops[1].outcome))
                              ELSE Raised(lastClose'.raised)]

----------------------------------------------------------------------------
(* Specifications *)

\* One caller task on a client it starts: an operation is called when the
\* one before has ended.
Next ==
    \/ Start /\ UNCHANGED tool
    \/ \E input \in SearchInputs :
          SearchCall(1, input[1], input[2]) /\ UNCHANGED tool
    \/ \E listing_id \in ListingIds, detail_page \in DetailPages :
          DetailsCall(1, listing_id, detail_page) /\ UNCHANGED tool
    \/ Step(1) /\ UNCHANGED tool

Spec == Init /\ [][Next]_vars

\* Several caller tasks on a client that start() has brought up: their
\* operations interleave at their awaits.
InitConc ==
    /\ client = [playwright |-> "Playwright", browser |-> "Browser"]
    /\ driver = "running"
    /\ browserProc = "open"
    /\ lastStart = [how |-> "ok", attempts |-> 1, raised |-> "none"]
    /\ lastClose = [raised |-> "none", row |-> 0]
    /\ lifecycle = [starts |-> 1, closes |-> 0]
    /\ contexts = [c \in CallIds |-> "none"]
    /\ pages = [c \in CallIds |-> "none"]
    /\ location = [c \in CallIds |-> 0]
    /\ ops = [t \in Tasks |-> IdleOp]
    /\ calls = 0
    /\ tool = IdleTool

NextConc ==
    \E t \in Tasks :
       \/ \E page_count \in ConcPageCounts, site \in ConcSites :
             SearchCall(t, page_count, site) /\ UNCHANGED tool
       \/ \E listing_id \in ConcListingIds, detail_page \in ConcDetailPages :
             DetailsCall(t, listing_id, detail_page) /\ UNCHANGED tool
       \/ Step(t) /\ UNCHANGED tool

SpecConc == InitConc /\ [][NextConc]_vars

\* One caller task fetching listings of every kind on a client that start()
\* has brought up.
DetailsStep(t) ==
    \/ NewContext(t)
    \/ NewPage(t)
    \/ Goto(t)
    \/ WaitForSelector(t)
    \/ ExtractDetails(t)
    \/ PageClose(t)
    \/ ContextClose(t)

NextDetails ==
    \/ \E listing_id \in ListingIds, detail_page \in RichDetailPages :
          DetailsCall(1, listing_id, detail_page) /\ UNCHANGED tool
    \/ DetailsStep(1) /\ UNCHANGED tool

SpecDetails == InitConc /\ [][NextDetails]_vars

\* client._parse_price(price_text) called on a new client, as
\* test_price_parsing does, with any price text
InitPrice ==
    /\ client = [playwright |-> None, browser |-> None]
    /\ driver = "absent"
    /\ browserProc = "absent"
    /\ lastStart = [how |-> "none", attempts |-> 0, raised |-> "none"]
    /\ lastClose = [raised |-> "none", row |-> 0]
    /\ lifecycle = [starts |-> 0, closes |-> 0]
    /\ contexts = [c \in CallIds |-> "none"]
    /\ pages = [c \in CallIds |-> "none"]
    /\ location = [c \in CallIds |-> 0]
    /\ \E price_text \in PriceTexts :
          ops = [t \in Tasks |->
                   IF t = 1
                   THEN [IdleOp EXCEPT !.kind = "parse_price", !.pc = "called",
                                       !.price_text = price_text]
                   ELSE IdleOp]
    /\ calls = 0
    /\ tool = IdleTool

\* _parse_price, lines 359-368: the call returns
ParsePrice(t) ==
    /\ ops[t].kind = "parse_price"
    /\ ops[t].pc = "called"
    /\ ops' = [ops EXCEPT ![t].outcome = Returned(<<parse_price(ops[t].price_text)>>),
                          ![t].pc = "done"]
    /\ UNCHANGED <<client, driver, browserProc, lastStart, lastClose, lifecycle,
                   contexts, pages, location, calls, tool>>

NextPrice == ParsePrice(1)

SpecPrice == InitPrice /\ [][NextPrice]_vars

\* client._extract_listing_details(page) on a page of any title text or
\* description text
InitExtract ==
    /\ client = [playwright |-> None, browser |-> None]
    /\ driver = "absent"
    /\ browserProc = "absent"
    /\ lastStart = [how |-> "none", attempts |-> 0, raised |-> "none"]
    /\ lastClose = [raised |-> "none", row |-> 0]
    /\ lifecycle = [starts |-> 0, closes |-> 0]
    /\ contexts = [c \in CallIds |-> "none"]
    /\ pages = [c \in CallIds |-> "none"]
    /\ location = [c \in CallIds |-> 0]
    /\ \E detail_page \in ExtractPages :
          ops = [t \in Tasks |->
                   IF t = 1
                   THEN [IdleOp EXCEPT !.kind = "extract_details", !.pc = "called",
                                       !.detail_page = detail_page]
                   ELSE IdleOp]
    /\ calls = 0
    /\ tool = IdleTool

ExtractOnly(t) ==
    /\ ops[t].kind = "extract_details"
    /\ ops[t].pc = "called"
    /\ ops' = [ops EXCEPT ![t].outcome =
                              Returned(<<ExtractListingDetails(ops[t].detail_page)>>),
                          ![t].pc = "done"]
    /\ UNCHANGED <<client, driver, browserProc, lastStart, lastClose, lifecycle,
                   contexts, pages, location, calls, tool>>

NextExtract == ExtractOnly(1)

SpecExtract == InitExtract /\ [][NextExtract]_vars

\* result pages of one fragment that differ in its price element
SummaryPages ==
    {[raises |-> FALSE, items |-> <<[Good(1, 1) EXCEPT !.price = price_element]>>] :
        price_element \in {Element(text) : text \in PriceTexts} \cup {Missing}}

\* client._extract_listings_from_page(page) on a result page of any price text
InitSummary ==
    /\ client = [playwright |-> None, browser |-> None]
    /\ driver = "absent"
    /\ browserProc = "absent"
    /\ lastStart = [how |-> "none", attempts |-> 0, raised |-> "none"]
    /\ lastClose = [raised |-> "none", row |-> 0]
    /\ lifecycle = [starts |-> 0, closes |-> 0]
    /\ contexts = [c \in CallIds |-> "none"]
    /\ pages = [c \in CallIds |-> "none"]
    /\ location = [c \in CallIds |-> 0]
    /\ \E content \in SummaryPages :
          ops = [t \in Tasks |->
                   IF t = 1
                   THEN [IdleOp EXCEPT !.kind = "extract_listings", !.pc = "called",
                                       !.content = content]
                   ELSE IdleOp]
    /\ calls = 0
    /\ tool = IdleTool

ExtractSummaries(t) ==
    /\ ops[t].kind = "extract_listings"
    /\ ops[t].pc = "called"
    /\ ops' = [ops EXCEPT ![t].outcome =
                              Returned(ExtractListingsFromPage(ops[t].content)),
                          ![t].pc = "done"]
    /\ UNCHANGED <<client, driver, browserProc, lastStart, lastClose, lifecycle,
                   contexts, pages, location, calls, tool>>

NextSummary == ExtractSummaries(1)

SpecSummary == InitSummary /\ [][NextSummary]_vars

\* the filters of a search: each one absent, supplied with a value that
\* Python takes as false, or supplied with another value
Filters ==
    [query : {None, "", "rad"}, location : {None, "", "10178"},
     radius : {NoInt, <<0>>, <<5>>},
     min_price : {NoInt, <<0>>, <<10>>}, max_price : {NoInt, <<0>>, <<50>>}]

\* search_listings(query, location, radius, min_price, max_price) up to the
\* search URL, with any filters
InitUrl ==
    /\ client = [playwright |-> None, browser |-> None]
    /\ driver = "absent"
    /\ browserProc = "absent"
    /\ lastStart = [how |-> "none", attempts |-> 0, raised |-> "none"]
    /\ lastClose = [raised |-> "none", row |-> 0]
    /\ lifecycle = [starts |-> 0, closes |-> 0]
    /\ contexts = [c \in CallIds |-> "none"]
    /\ pages = [c \in CallIds |-> "none"]
    /\ location = [c \in CallIds |-> 0]
    /\ \E filters \in Filters :
          ops = [t \in Tasks |->
                   IF t = 1
                   THEN [IdleOp EXCEPT !.kind = "search_url", !.pc = "called",
                                       !.filters = filters]
                   ELSE IdleOp]
    /\ calls = 0
    /\ tool = IdleTool

BuildUrl(t) ==
    /\ ops[t].kind = "search_url"
    /\ ops[t].pc = "called"
    /\ ops' = [ops EXCEPT ![t].outcome = Returned(<<SearchUrl(ops[t].filters)>>),
                          ![t].pc = "done"]
    /\ UNCHANGED <<client, driver, browserProc, lastStart, lastClose, lifecycle,
                   contexts, pages, location, calls, tool>>

NextUrl == BuildUrl(1)

SpecUrl == InitUrl /\ [][NextUrl]_vars

\* One caller task on a started client, whose caller may cancel it while an
\* operation is in flight, as the outer deadline of quick_test.py does.
CancelPageCounts == {1, 2}

NextCancel ==
    \/ \E page_count \in CancelPageCounts, site \in ConcSites :
          SearchCall(1, page_count, site) /\ UNCHANGED tool
    \/ \E listing_id \in ConcListingIds, detail_page \in ConcDetailPages :
          DetailsCall(1, listing_id, detail_page) /\ UNCHANGED tool
    \/ Step(1) /\ UNCHANGED tool
    \/ Cancel(1) /\ UNCHANGED tool

SpecCancel == InitConc /\ [][NextCancel]_vars

\* One caller task that starts and closes its client in any order around
\* its operations.
NextLife ==
    \/ Start /\ UNCHANGED tool
    \/ Close /\ UNCHANGED tool
    \/ \E page_count \in ConcPageCounts, site \in ConcSites :
          SearchCall(1, page_count, site) /\ UNCHANGED tool
    \/ \E listing_id \in ConcListingIds, detail_page \in ConcDetailPages :
          DetailsCall(1, listing_id, detail_page) /\ UNCHANGED tool
    \/ Step(1) /\ UNCHANGED tool

SpecLife == Init /\ [][NextLife]_vars

\* One call of a tool-layer entry point.
NextTool ==
    \/ \E name \in {"search_listings", "get_listing_details"} : ToolEnter(name)
    \/ \E input \in ToolSearchInputs : ToolSearch(input[1], input[2])
    \/ \E listing_id \in ToolListingIds, detail_page \in ToolDetailPages :
          ToolDetails(listing_id, detail_page)
    \/ ToolAwait
    \/ ToolExit

SpecTool == Init /\ [][NextTool]_vars

----------------------------------------------------------------------------
(* Properties *)

Ended(t) == ops[t].pc = "done"
Released(t) == ops[t].released = <<"page", "context">>
Search(t) == ops[t].kind = "search"
Details(t) == ops[t].kind = "details"

\* the pages 1..n in ascending order
RECURSIVE UpTo(_)
UpTo(n) == IF n < 1 THEN <<>> ELSE Append(UpTo(n - 1), n)

Clamp(x, lo, hi) == IF x < lo THEN lo ELSE IF x > hi THEN hi ELSE x

\* C1: on a client whose start() was never called, search_listings raises
\* SearchError and get_listing_details raises DetailFetchError, no browsing
\* context or page is created and no navigation is attempted.
C1_NeverStartedRaises ==
    lifecycle.starts = 0 =>
        /\ \A c \in CallIds : contexts[c] = "none" /\ pages[c] = "none" /\ location[c] = 0
        /\ \A t \in Tasks :
             /\ ops[t].gotoLog = <<>>
             /\ ops[t].context = 0 /\ ops[t].page = 0
             /\ ops[t].pc \in {"ready", "done"}
             /\ Search(t) => ops[t].outcome = Raised("SearchError")
             /\ Details(t) => ops[t].outcome = Raised("DetailFetchError")

C1_Witness ==
    /\ lifecycle.starts = 0
    /\ calls = 2
    /\ Details(1) /\ ops[1].outcome.kind = "DetailFetchError"

\* C2: every call on a started client, on every exit path, has closed its
\* page and then its context when it ends: nothing it created is still open.
C2_ReleasedOnEveryExit ==
    \A t \in Tasks :
        Ended(t) /\ ops[t].started =>
            /\ contexts[ops[t].call] # "open"
            /\ pages[ops[t].call] # "open"
            /\ ops[t].context # 0 => Released(t)

\* C3: on a started client every failure of search_listings reaches the
\* caller as SearchError and every failure of get_listing_details as
\* DetailFetchError, session-level failures included.
C3_FailuresAreOperationErrors ==
    \A t \in Tasks :
        Ended(t) /\ ops[t].started =>
            ops[t].outcome.kind \in {"return", OwnError(ops[t].kind)}

\* C4: if the navigation to page k of a search fails, the search raises
\* SearchError, the navigation is not retried, no page after k is navigated
\* and the items of the pages before k are not returned.
C4_NavigationFailureAborts ==
    \A t \in Tasks :
        Search(t) /\ ops[t].navFailed =>
            /\ ops[t].gotoLog = UpTo(ops[t].failedNav)
            /\ ops[t].pc \in {"page_close", "context_close", "done"}
            /\ Ended(t) => ops[t].outcome.kind = "SearchError"

\* C5: if extracting the items of a page of a search raises, the search is
\* aborted with SearchError and never ends as a successful return.
ExtractionRaised(t) ==
    \E p \in 1..ops[t].extracted : PageContent(ops[t].site, p).raises

C5_ExtractionFailureAborts ==
    \A t \in Tasks :
        Search(t) /\ ExtractionRaised(t) =>
            /\ ops[t].pc \in {"page_close", "context_close", "done"}
            /\ ops[t].pending.kind # "return"
            /\ Ended(t) => ops[t].outcome.kind = "SearchError"

\* C6: if page 1 of a search yields zero items, then for every requested
\* page count no page after page 1 is navigated and the search returns
\* successfully with an empty sequence.
FirstPageEmpty(t) ==
    /\ Search(t)
    /\ ops[t].extracted >= 1
    /\ ExtractListingsFromPage(PageContent(ops[t].site, 1)) = <<>>

C6_EmptyFirstPageReturnsEmpty ==
    \A t \in Tasks :
        FirstPageEmpty(t) =>
            /\ ops[t].gotoLog = <<1>>
            /\ Ended(t) => ops[t].outcome = Returned(<<>>)

\* C7: for every integer page_count the number of pages a search may
\* navigate is clamp(page_count, 1, 20), and no call is rejected because of
\* its page_count: a search that ends in an error was called on a client
\* without a browser or met a failure of the browser.
C7_PageCountClamped ==
    \A t \in Tasks :
        Search(t) =>
            /\ ops[t].started => ops[t].page_count = Clamp(ops[t].requested, 1, 20)
            /\ Len(ops[t].gotoLog) <= Clamp(ops[t].requested, 1, 20)
            /\ \A i \in DOMAIN ops[t].gotoLog :
                   ops[t].gotoLog[i] \in 1..Clamp(ops[t].requested, 1, 20)
            /\ ops[t].started => ops[t].pc # "ready"
            /\ Ended(t) /\ ops[t].outcome.kind # "return" =>
                   \/ ~ops[t].started
                   \/ ops[t].context = 0 \/ ops[t].page = 0
                   \/ ops[t].navFailed
                   \/ ~Released(t)
            /\ Ended(t) /\ ops[t].outcome.kind = "return"
                 /\ ~NoResultsOnFirstPage(ExtractListingsFromPage(PageContent(ops[t].site, 1)), 1)
                 => ops[t].gotoLog = UpTo(Clamp(ops[t].requested, 1, 20))

C7_Witness ==
    /\ Search(1) /\ Ended(1) /\ ops[1].outcome.kind = "return"
    /\ ops[1].requested = 25
    /\ Len(ops[1].gotoLog) = 20
    /\ calls = 2

\* a fragment whose article, data-adid and data-href were all recovered
Complete(item) ==
    /\ item.article
    /\ item.data_adid \notin {None, ""}
    /\ item.data_href \notin {None, ""}

\* C8: a summary is emitted for a fragment only if both its data-adid and
\* its data-href were recovered and are non-empty; any other fragment is
\* dropped, so a page gives at most as many summaries as it has fragments
\* and every summary has a non-empty id and url.
\* (page_results holds the summaries of the page extracted last, results
\* those of all pages so far.)
C8_OnlyIdentifiedFragments ==
    \A t \in Tasks :
        Search(t) /\ ops[t].extracted >= 1 =>
            LET content == PageContent(ops[t].site, ops[t].extracted)
                items == IF content.raises THEN <<>> ELSE content.items
                complete == {j \in DOMAIN items : Complete(items[j])}
            IN  /\ Len(ops[t].page_results) <= Len(content.items)
                /\ Len(ops[t].page_results) = Cardinality(complete)
                /\ \A i \in DOMAIN ops[t].page_results :
                      \E j \in complete :
                         /\ ops[t].page_results[i].adid = items[j].data_adid
                         /\ ops[t].page_results[i].url = base_url \o items[j].data_href
                /\ \A i \in DOMAIN ops[t].results :
                      /\ ops[t].results[i].adid \notin {None, ""}
                      /\ ops[t].results[i].url \notin {None, "", base_url, base_url \o None}

C8_Witness ==
    /\ Search(1) /\ ops[1].site = "partial"
    /\ Ended(1) /\ ops[1].outcome.kind = "return"
    /\ ops[1].extracted = 2
    /\ Len(PageContent("partial", 2).items) = 7
    /\ Len(ops[1].page_results) = 2
    /\ Len(ops[1].outcome.value) = 4

\* C9 as claimed: every operation on a started client, failing ones
\* included, creates exactly one context and one page of its own, and pages
\* are navigated by their own operation only.
C9_EachCreatesExactlyOne ==
    /\ \A t \in Tasks :
         Ended(t) => contexts[ops[t].call] # "none" /\ pages[ops[t].call] # "none"
    /\ \A c \in CallIds : location[c] \in {0, c}

\* C9 as amended: operations on one started client, interleaved and failing
\* ones included, each create at most one context and one page of their own
\* (exactly one of each unless the browser refuses to create it), navigate
\* and close only that context and page, and never change the shared
\* browser, so that the client still serves operations after a failed one.
C9_Own ==
    /\ \A t \in Tasks :
         /\ ops[t].context \in {0, ops[t].call}
         /\ ops[t].page \in {0, ops[t].call}
         /\ ops[t].page # 0 => ops[t].context # 0
         /\ ops[t].pc \in {"new_page", "goto", "wait_for_selector", "extract",
                           "page_close", "context_close"}
              => ops[t].context # 0 /\ contexts[ops[t].call] = "open"
         /\ ops[t].pc \in {"goto", "wait_for_selector", "extract", "page_close"}
              => ops[t].page # 0 /\ pages[ops[t].call] = "open"
         /\ ops[t].pc = "context_close" => pages[ops[t].call] = "closed"
         /\ ops[t].kind # "none" => ops[t].started
    /\ \A c \in CallIds :
         /\ location[c] \in {0, c}
         /\ contexts[c] # "none" \/ pages[c] # "none" =>
               \E t \in Tasks : ops[t].call >= c
    /\ browserProc = "open"
    /\ client = [playwright |-> "Playwright", browser |-> "Browser"]

C9_OwnStep ==
    /\ \A c \in CallIds :
         contexts'[c] # contexts[c] \/ pages'[c] # pages[c] \/ location'[c] # location[c]
            => \E t \in Tasks : ops[t].call = c /\ ops'[t] # ops[t] /\ ops'[t].call = c
    /\ UNCHANGED <<client, driver, browserProc>>

C9_OwnContextAndPage == []C9_Own /\ [][C9_OwnStep]_vars

\* two operations in flight, one of them failed and in its cleanup
C9_Witness ==
    /\ ops[1].pc = "page_close" /\ ops[1].navFailed
    /\ ops[2].pc = "extract" /\ ops[2].call = 1
    /\ pages[1] = "open" /\ pages[2] = "open"

\* C10: if the browser fails to launch, start() makes a single launch
\* attempt and raises SessionError, an error kind that is neither
\* SearchError nor DetailFetchError.
C10_LaunchFailureRaisesSessionError ==
    lastStart.how = "launch_fails" =>
        /\ lastStart.attempts <= 1
        /\ lastStart.raised = "SessionError"
        /\ lastStart.raised \notin {"SearchError", "DetailFetchError"}

\* C11: close() never raises: not on a client that was never started, not
\* when called two or more times in a row after start(), and not when
\* browser.close() or playwright.stop() itself raises.
C11_CloseNeverRaises ==
    /\ lastClose.raised = "none"
    /\ lastClose.row <= lifecycle.closes
    /\ lifecycle.starts = 0 => driver = "absent" /\ browserProc = "absent"

\* a second close() in a row after start(), both with browser.close() raising
C11_Witness ==
    /\ lifecycle.starts = 1 /\ lastStart.how = "ok"
    /\ lastClose.row = 2
    /\ browserProc = "open"

\* C12: _search_listings_impl and _get_listing_details_impl always end by
\* returning a text and never let an exception reach their caller, whatever
\* fails in the client, a failure to start the browser included.
C12_ToolAlwaysReturnsText ==
    tool.pc = "done" => tool.outcome.kind = "return"

\* the successful calls of get_listing_details and the record each returned
Fetched(t) == Details(t) /\ Ended(t) /\ ops[t].outcome.kind = "return"
Record(t) == ops[t].outcome.value[1]

\* core is text without the whitespace at its two ends
IsTrimOf(core, text) ==
    /\ core = <<>> \/ (core[1] \notin Whitespace /\ core[Len(core)] \notin Whitespace)
    /\ \E a \in 0..Len(text) :
          /\ Len(core) <= Len(text) - a
          /\ SubSeq(text, a + 1, a + Len(core)) = core
          /\ \A i \in 1..Len(text) :
                i <= a \/ i > a + Len(core) => text[i] \in Whitespace

\* C13 as claimed: for every listing id, a successful get_listing_details(id)
\* returns a ListingDetails whose id equals the requested id.
C13_IdEqualsRequested ==
    \A t \in Tasks : Fetched(t) => Record(t).id = ops[t].listing_id

\* C13 as amended: a successful get_listing_details(id) returns a
\* ListingDetails whose id is the trimmed text of the id element of the page
\* served for the request, so it equals the requested id whenever that
\* element shows the requested id, and is the sentinel "[ERROR] ID not
\* found" when the page has no id element.
C13_IdIsThePagesId ==
    \A t \in Tasks :
        Fetched(t) =>
            LET id_box == ops[t].detail_page.id_box
            IN  /\ id_box.found => IsTrimOf(Record(t).id, id_box.text)
                /\ id_box.found /\ IsTrimOf(ops[t].listing_id, id_box.text)
                      => Record(t).id = ops[t].listing_id
                /\ ~id_box.found => Record(t).id = <<"[ERROR] ID not found">>

\* the page shows the requested id with whitespace around it
C13_Witness ==
    /\ Fetched(1)
    /\ ops[1].listing_id = <<"7">>
    /\ ops[1].detail_page.id_box = Element(<<"\n", "7", " ">>)
    /\ Record(1).id = <<"7">>

\* what decides the status on the page of a fetched record
TitleOf(t) == ops[t].detail_page.title
BadgeOf(t) == ops[t].detail_page.badge_sold
HasSoldWord(t) == TitleOf(t).found /\ Contains(TitleOf(t).text, Verkauft)
HasReservedMarker(t) == TitleOf(t).found /\ Contains(TitleOf(t).text, ReserviertBullet)
HasDeletedMarker(t) == TitleOf(t).found /\ Contains(TitleOf(t).text, GeloeschtBullet)

\* C14: every ListingDetails returned has a status among active, sold,
\* reserved, deleted, for every page content; the status is active exactly
\* when the title element is missing or contains none of the three title
\* markers, and the page has no sold badge.
C14_StatusInClosedSet ==
    \A t \in Tasks :
        Fetched(t) =>
            /\ Record(t).status \in {"active", "sold", "reserved", "deleted"}
            /\ Record(t).status = "active" <=>
                  /\ ~HasSoldWord(t) /\ ~HasReservedMarker(t) /\ ~HasDeletedMarker(t)
                  /\ ~BadgeOf(t)

\* a page without title element and without badge
C14_Witness ==
    /\ Fetched(1)
    /\ ~TitleOf(1).found /\ ~BadgeOf(1)
    /\ Record(1).status = "active"

\* C15: whenever the page has a sold badge the status is sold, whatever the
\* title holds (a reserved marker, a deleted marker, no marker) and also
\* when the title element is missing.
C15_BadgeMeansSold ==
    \A t \in Tasks :
        Fetched(t) /\ BadgeOf(t) => Record(t).status = "sold"

\* a badge on a page whose title has the reserved marker and not the sold word
C15_Witness ==
    /\ Fetched(1) /\ BadgeOf(1)
    /\ HasReservedMarker(1) /\ ~HasSoldWord(1)
    /\ Record(1).status = "sold"

\* C16: without sold badge, when the title matches more than one of the
\* title checks, the status is that of the latest matching check in the
\* order sold word, reserved marker, deleted marker: sold word and reserved
\* marker give reserved, reserved and deleted marker give deleted.
C16_LatestTitleCheckWins ==
    \A t \in Tasks :
        Fetched(t) /\ ~BadgeOf(t) =>
            /\ HasSoldWord(t) /\ HasReservedMarker(t) /\ ~HasDeletedMarker(t)
                  => Record(t).status = "reserved"
            /\ HasReservedMarker(t) /\ HasDeletedMarker(t)
                  => Record(t).status = "deleted"

\* the calls of _parse_price that returned, their text and their result
Parsed(t) == ops[t].kind = "parse_price" /\ Ended(t)
Price(t) == ops[t].outcome.value[1]

Digits == {"0", "1", "2", "3", "4", "5", "6", "7", "8", "9"}

\* the digits of a text, in order
RECURSIVE DigitsOf(_)
DigitsOf(text) ==
    IF text = <<>> THEN <<>>
    ELSE IF Head(text) \in Digits THEN <<Head(text)>> \o DigitsOf(Tail(text))
         ELSE DigitsOf(Tail(text))

\* text with the characters of one kind taken out
RECURSIVE Without(_, _)
Without(text, chars) ==
    IF text = <<>> THEN <<>>
    ELSE IF Head(text) \in chars THEN Without(Tail(text), chars)
         ELSE <<Head(text)>> \o Without(Tail(text), chars)

\* a text made only of digits and thousands dots in one piece, with euro
\* signs, VB tokens and spaces around that piece
RECURSIVE OnlyMarkers(_)
OnlyMarkers(text) ==
    \/ text = <<>>
    \/ Head(text) \in {" ", Euro} /\ OnlyMarkers(Tail(text))
    \/ StartsWith(text, <<"V", "B">>) /\ OnlyMarkers(SubSeq(text, 3, Len(text)))

PlainPrice(text) ==
    \E a \in 0..Len(text), b \in 0..Len(text) :
        /\ a < b
        /\ OnlyMarkers(SubSeq(text, 1, a))
        /\ \A i \in (a + 1)..b : text[i] \in Digits \cup {"."}
        /\ text[a + 1] \in Digits /\ text[b] \in Digits
        /\ OnlyMarkers(SubSeq(text, b + 1, Len(text)))

\* C17 as claimed: for every price text _parse_price returns None or a
\* non-empty trimmed string without euro sign, VB token and dot; for a text
\* made only of digits, thousands dots, the euro sign, the VB token and
\* spaces around them it returns exactly the digits in order ("1.000 EUR VB"
\* gives "1000"); for an empty or marker-only text it returns None.
C17_PriceIsDigitsOrAbsent ==
    \A t \in Tasks :
        Parsed(t) =>
            LET text == ops[t].price_text
                price == Price(t)
            IN  /\ price.type \in {"None", "str"}
                /\ price.type = "str" =>
                      /\ price.items # <<>>
                      /\ price.items[1] \notin Whitespace
                      /\ price.items[Len(price.items)] \notin Whitespace
                      /\ ~Contains(price.items, <<Euro>>)
                      /\ ~Contains(price.items, <<"V", "B">>)
                      /\ ~Contains(price.items, <<".">>)
                /\ PlainPrice(text) => price = Str(DigitsOf(text))
                /\ OnlyMarkers(text) => price = NoneValue

\* the letters V and B occur in the text only as VB tokens
LettersOnlyInTokens(text) ==
    \A i \in DOMAIN text :
        /\ text[i] = "V" => i < Len(text) /\ text[i + 1] = "B"
        /\ text[i] = "B" => i > 1 /\ text[i - 1] = "V"

\* C17 as amended: for every price text _parse_price returns None or a
\* non-empty trimmed string without euro sign and without dot, and without
\* VB token provided the letters V and B occur in the text only as VB
\* tokens; for a text made only of digits, thousands dots, the euro sign,
\* the VB token and spaces around them it returns exactly the digits in
\* order; for an empty or marker-only text it returns None.
C17_PriceCleaned ==
    \A t \in Tasks :
        Parsed(t) =>
            LET text == ops[t].price_text
                price == Price(t)
            IN  /\ price.type \in {"None", "str"}
                /\ price.type = "str" =>
                      /\ price.items # <<>>
                      /\ price.items[1] \notin Whitespace
                      /\ price.items[Len(price.items)] \notin Whitespace
                      /\ ~Contains(price.items, <<Euro>>)
                      /\ ~Contains(price.items, <<".">>)
                      /\ LettersOnlyInTokens(text)
                            => ~Contains(price.items, <<"V", "B">>)
                /\ PlainPrice(text) => price = Str(DigitsOf(text))
                /\ OnlyMarkers(text) => price = NoneValue

\* the price text of the tests
C17_Witness ==
    /\ Parsed(1)
    /\ ops[1].price_text = <<"1", ".", "0", "0", "0", " ", Euro, " ", "V", "B">>
    /\ Price(1) = Str(<<"1", "0", "0", "0">>)

\* C18: in every ListingDetails returned, for every page content, the
\* fields categories, images, details, features, seller, extra_info and
\* location are never None: a list or a mapping, empty when the source
\* element is missing.
C18_CollectionsNeverAbsent ==
    \A t \in Tasks :
        Fetched(t) =>
            LET page == ops[t].detail_page
                record == Record(t)
            IN  /\ record.categories.type = "list"
                /\ record.images.type = "list"
                /\ record.details.type = "dict"
                /\ record.features.type = "dict"
                /\ record.seller.type = "dict"
                /\ record.extra_info.type = "dict"
                /\ record.location.type = "dict"
                /\ page.breadcrumbs = <<>> => record.categories.items = <<>>
                /\ page.images = <<>> => record.images.items = <<>>
                /\ ~page.details.found => record.details.items = <<>>
                /\ ~page.features.found => record.features.items = <<>>
                /\ ~page.seller_name.found => record.seller.items = <<>>
                /\ ~page.locality.found => record.location.items = <<>>
                /\ record.extra_info.items = <<>>

\* a record of a page on which every source element is missing
C18_Witness ==
    /\ Fetched(1)
    /\ ops[1].detail_page = BarePage
    /\ Record(1).location = Dict(<<>>)
    /\ Record(1).categories = List(<<>>)

\* C19: if the navigation to the listing page fails or times out,
\* get_listing_details raises DetailFetchError whose message holds the
\* requested listing id and the cause, after a single navigation attempt and
\* without returning a partial record.
C19_DetailNavigationFailure ==
    \A t \in Tasks :
        Details(t) /\ ops[t].navFailed =>
            /\ ops[t].gotoLog = <<1>>
            /\ ops[t].extracted = 0
            /\ ops[t].pc \in {"page_close", "context_close", "done"}
            /\ Ended(t) =>
                  /\ ops[t].outcome.kind = "DetailFetchError"
                  /\ Contains(ops[t].outcome.value, ops[t].listing_id)
                  /\ Contains(ops[t].outcome.value, <<ops[t].cause>>)
                  /\ ops[t].cause \in GotoErrors

\* the ids of the fragments of a page that have their identity, in document order
RECURSIVE IdsOf(_)
IdsOf(items) ==
    IF items = <<>> THEN <<>>
    ELSE IF Complete(Head(items))
         THEN <<Head(items).data_adid>> \o IdsOf(Tail(items))
         ELSE IdsOf(Tail(items))

\* a page whose DOM query raised counts as a page without items
DocumentOrder(site, p) ==
    IF PageContent(site, p).raises THEN <<>> ELSE IdsOf(PageContent(site, p).items)

C20_Ascending ==
    \A t \in Tasks :
        Search(t) =>
            /\ ops[t].gotoLog = UpTo(Len(ops[t].gotoLog))
            /\ ops[t].extracted <= Len(ops[t].gotoLog)
            /\ ops[t].pending.kind = "return" => ops[t].pending.value = ops[t].results
            /\ Ended(t) /\ ops[t].outcome.kind = "return"
                  => ops[t].outcome.value = ops[t].results

C20_Merge ==
    \A t \in Tasks :
        /\ Search(t) /\ ops'[t].call = ops[t].call
              /\ ops'[t].gotoLog # ops[t].gotoLog
              => ops'[t].gotoLog = Append(ops[t].gotoLog, Len(ops[t].gotoLog) + 1)
        /\ Search(t) /\ ops'[t].call = ops[t].call
              /\ ops'[t].extracted # ops[t].extracted
              => /\ ops'[t].extracted = ops[t].extracted + 1
                 /\ Len(ops'[t].results) =
                       Len(ops[t].results) + Len(DocumentOrder(ops[t].site, ops'[t].extracted))
                 /\ SubSeq(ops'[t].results, 1, Len(ops[t].results)) = ops[t].results
                 /\ \A i \in DOMAIN DocumentOrder(ops[t].site, ops'[t].extracted) :
                       ops'[t].results[Len(ops[t].results) + i].adid
                          = DocumentOrder(ops[t].site, ops'[t].extracted)[i]
        /\ Search(t) /\ ops'[t].call = ops[t].call
              /\ ops'[t].extracted = ops[t].extracted
              => ops'[t].results = ops[t].results

\* C20: within one search the pages are navigated in strictly ascending
\* page-number order starting at 1, each page at most once, and the
\* returned sequence is the concatenation of the per-page item lists in
\* that page order, each page's items in document order.
C20_PagesInOrder == []C20_Ascending /\ [][C20_Merge]_vars

\* three pages of two items each, returned in page and document order
C20_Witness ==
    /\ Search(1) /\ Ended(1) /\ ops[1].outcome.kind = "return"
    /\ ops[1].site = "plenty"
    /\ ops[1].gotoLog = <<1, 2, 3>>
    /\ Len(ops[1].outcome.value) = 6
    /\ ops[1].outcome.value[1].adid = Good(1, 1).data_adid
    /\ ops[1].outcome.value[4].adid = Good(2, 2).data_adid
    /\ ops[1].outcome.value[5].adid = Good(3, 1).data_adid

\* an operation whose wait has just timed out
WaitTimedOut(t) == ops[t].pc = "extract" /\ ops[t].timedOut

\* C21 as claimed, for get_listing_details: when the wait for the view
\* counter timed out, the record returned has views "0".
C21_TimedOutViewsAreZero ==
    [][\A t \in Tasks :
          Details(t) /\ WaitTimedOut(t) /\ ops'[t].pending.kind = "return"
             => ops'[t].pending.value[1].views = <<"0">>]_vars

C21_WaitNeverFails ==
    \A t \in Tasks :
        /\ ops[t].pc = "wait_for_selector" /\ ops'[t] # ops[t]
              => ops'[t].pc = "extract" /\ ops'[t].pending = NoOutcome
        /\ Search(t) /\ WaitTimedOut(t) /\ ops'[t] # ops[t]
              => /\ ops'[t].extracted = ops[t].page_num
                 /\ \/ /\ ops'[t].pc = "goto"
                       /\ ops'[t].page_num = ops[t].page_num + 1
                    \/ /\ ops'[t].pc = "page_close"
                       /\ ops'[t].pending = Returned(ops'[t].results)
                       /\ \/ ops[t].page_num = ops[t].page_count
                          \/ ops[t].page_num = 1 /\ ops'[t].page_results = <<>>
        /\ Details(t) /\ WaitTimedOut(t) /\ ops'[t] # ops[t]
              => /\ ops'[t].pc = "page_close"
                 /\ ~ops[t].detail_page.raises
                       => /\ ops'[t].pending.kind = "return"
                          /\ ~ops[t].detail_page.views.found
                                => ops'[t].pending.value[1].views = <<"0">>
                 /\ ops[t].detail_page.raises
                       => ops'[t].pending.kind = "DetailFetchError"

\* C21 as amended: a timeout of the optional element wait is never fatal:
\* in search_listings the extraction of that page still runs and the
\* pagination continues; in get_listing_details the extraction still runs
\* and gives a record, whose views are "0" when the view counter is still
\* missing from the page at extraction.
C21_WaitTimeoutNotFatal == [][C21_WaitNeverFails]_vars

\* a listing page without view counter, after the wait for it timed out
C21_Witness ==
    /\ Details(1) /\ WaitTimedOut(1)
    /\ ~ops[1].detail_page.views.found
    /\ ~ops[1].detail_page.raises

\* _extract_listing_details has returned its record
Extracted(t) == ops[t].kind = "extract_details" /\ Ended(t)
\* the raw title: what get_text gives for the title element
RawTitle(t) == get_text(TitleOf(t), <<"[ERROR] Title not found">>)
\* the places of text where pattern occurs
Occurrences(text, pattern) ==
    {i \in 1..Len(text) : StartsWith(SubSeq(text, i, Len(text)), pattern)}
\* the text after the occurrence of pattern at place i
After(text, pattern, i) == SubSeq(text, i + Len(pattern), Len(text))
\* the text after the last occurrence of pattern
AfterLast(text, pattern) ==
    After(text, pattern,
          CHOOSE i \in Occurrences(text, pattern) :
              \A j \in Occurrences(text, pattern) : j <= i)
\* no two occurrences of pattern share a character
NoOverlap(text, pattern) ==
    \A i, j \in Occurrences(text, pattern) : i < j => i + Len(pattern) <= j

\* C22 as claimed: when the raw title contains the bullet separator, the
\* emitted title is exactly the text after the last bullet separator,
\* trimmed, so it never contains the separator; a raw title without the
\* separator is emitted unchanged.
C22_TextAfterLastSeparator ==
    \A t \in Tasks :
        Extracted(t) /\ TitleOf(t).found =>
            /\ Contains(RawTitle(t), BulletSeparator)
                  => Record(t).title = Strip(AfterLast(RawTitle(t), BulletSeparator))
            /\ ~Contains(Record(t).title, BulletSeparator)
            /\ ~Contains(RawTitle(t), BulletSeparator)
                  => Record(t).title = RawTitle(t)

\* C22 as amended: when the raw title contains the bullet separator, the
\* emitted title is the trimmed text after a bullet separator, a text that
\* holds no separator itself, and it is the text after the last occurrence
\* of the separator whenever no two occurrences overlap; an emitted title
\* never contains the separator, and a raw title without the separator is
\* emitted unchanged.
C22_TextAfterLastSplit ==
    \A t \in Tasks :
        Extracted(t) /\ TitleOf(t).found =>
            /\ Contains(RawTitle(t), BulletSeparator)
                  => /\ \E i \in Occurrences(RawTitle(t), BulletSeparator) :
                           /\ Record(t).title =
                                 Strip(After(RawTitle(t), BulletSeparator, i))
                           /\ ~Contains(After(RawTitle(t), BulletSeparator, i),
                                        BulletSeparator)
                     /\ NoOverlap(RawTitle(t), BulletSeparator)
                           => Record(t).title =
                                 Strip(AfterLast(RawTitle(t), BulletSeparator))
            /\ ~Contains(Record(t).title, BulletSeparator)
            /\ ~Contains(RawTitle(t), BulletSeparator)
                  => Record(t).title = RawTitle(t)

\* a title in which two separators share a space, cleaned
C22_Witness ==
    /\ Extracted(1) /\ TitleOf(1).found
    /\ ~NoOverlap(RawTitle(1), BulletSeparator)
    /\ Record(1).title # <<>>

DescriptionOf(t) == ops[t].detail_page.description
\* a run of two or more spaces or tabs
HasBlankRun(text) ==
    \E i \in 1..(Len(text) - 1) : text[i] \in {" ", "\t"} /\ text[i + 1] \in {" ", "\t"}
\* a line between two line breaks that is empty or holds only spaces or tabs
HasBlankLine(text) ==
    \E i, j \in 1..Len(text) :
        /\ i < j
        /\ text[i] = "\n" /\ text[j] = "\n"
        /\ \A k \in (i + 1)..(j - 1) : text[k] \in {" ", "\t"}
HasOuterWhitespace(text) ==
    text # <<>> /\ (text[1] \in Whitespace \/ text[Len(text)] \in Whitespace)

\* C25: for every description text, the normalized description contains no
\* run of two or more spaces or tabs, no blank line (no line that is empty
\* or holds only spaces or tabs between two line breaks), and no leading or
\* trailing whitespace.
C25_DescriptionNormalized ==
    \A t \in Tasks :
        Extracted(t) /\ DescriptionOf(t).found =>
            /\ ~HasBlankRun(Record(t).description)
            /\ ~HasBlankLine(Record(t).description)
            /\ ~HasOuterWhitespace(Record(t).description)

\* C23: every ListingSummary emitted by a successful search has a non-empty
\* title, also when the fragment's title element is missing.
C23_TitleNeverEmpty ==
    \A t \in Tasks :
        Search(t) /\ Ended(t) /\ ops[t].outcome.kind = "return" =>
            \A i \in DOMAIN ops[t].outcome.value : ops[t].outcome.value[i].title # ""

\* _extract_listings_from_page has returned the summary of its one fragment
Summarized(t) == ops[t].kind = "extract_listings" /\ Ended(t)
Summary(t) == ops[t].outcome.value[1]
PriceElementOf(t) == ops[t].content.items[1].price

\* C24: the price cleanup of the search path and the price normalization of
\* the detail path (_parse_price) give the same result for every price text;
\* in particular a text that is empty after cleanup (missing price element,
\* "VB" only) gives an absent price in a ListingSummary, never an empty
\* string.
C24_SamePriceNormalization ==
    \A t \in Tasks :
        Summarized(t) =>
            /\ Str(Summary(t).price) = parse_price(get_text(PriceElementOf(t), <<>>))
            /\ Summary(t).price # <<>>

\* the search URL has been built
UrlBuilt(t) == ops[t].kind = "search_url" /\ Ended(t)
Url(t) == ops[t].outcome.value[1]
FiltersOf(t) == ops[t].filters
\* the query parameters of a URL hold the key
HasKey(params, key) == \E i \in DOMAIN params : params[i][1] = key

\* C26: in the search URL every component appears exactly when its filter
\* value was supplied: the price path segment is present iff min_price or
\* max_price is not absent (a supplied bound of 0 counts as present, a
\* missing side is left blank), and the query keys keywords, locationStr and
\* radius are present iff query, location and radius respectively were
\* supplied, including a supplied radius of 0.
C26_ComponentsIffSupplied ==
    \A t \in Tasks :
        UrlBuilt(t) =>
            /\ Url(t).price_path # <<>>
                  <=> ~IsNone(FiltersOf(t).min_price) \/ ~IsNone(FiltersOf(t).max_price)
            /\ Url(t).price_path # <<>> =>
                  /\ IsNone(FiltersOf(t).min_price) <=> Url(t).price_path[2] = ""
                  /\ IsNone(FiltersOf(t).max_price) <=> Url(t).price_path[4] = ""
            /\ HasKey(Url(t).params, "keywords") <=> FiltersOf(t).query # None
            /\ HasKey(Url(t).params, "locationStr") <=> FiltersOf(t).location # None
            /\ HasKey(Url(t).params, "radius") <=> ~IsNone(FiltersOf(t).radius)

\* C27: if the calling task is cancelled while search_listings or
\* get_listing_details is suspended in its navigation, its optional element
\* wait or its DOM query, the operation ends with the cancellation after
\* releasing its page and context; it never swallows the cancellation and
\* goes on to extract and return a result.
C27_CancellationPropagates ==
    \A t \in Tasks :
        ops[t].cancelled =>
            /\ ops[t].pending.kind # "return"
            /\ ops[t].pc \notin {"goto", "wait_for_selector", "extract"}
            /\ Ended(t) /\ Released(t) => ops[t].outcome.kind = "CancelledError"

\* task t makes a call in this step
Calls(t) == ops'[t].call # ops[t].call

\* C28: after close() has completed on a started client, the client behaves
\* like one that was never started: search_listings raises the "not
\* initialized" SearchError and get_listing_details the "not initialized"
\* DetailFetchError, without trying to create a context on the closed
\* browser.
C28_ClosedLikeNeverStarted ==
    [][\A t \in Tasks :
          browserProc = "closed" /\ Calls(t) =>
              /\ ops'[t].pc = "done"
              /\ ops'[t].outcome = Raised(OwnError(ops'[t].kind))]_vars

\* C29: when the client is used through "async with" and start() fails at
\* browser launch after the Playwright driver was started, no resource stays
\* held: the driver has been stopped by the time the failure reaches the
\* caller of the tool.
C29_NothingHeldAfterFailedStart ==
    tool.pc = "done" /\ lastStart.how = "launch_fails" => driver # "running"

\* what the extraction gives for page p of the site task t searches
ItemsOfPage(t, p) == ExtractListingsFromPage(PageContent(ops[t].site, p))

\* C30: in a search with no failure whose page 1 yields at least one item,
\* exactly clamp(page_count, 1, 20) pages are navigated, in order: an empty
\* page k > 1 does not stop pagination, and the only early exit is an empty
\* page 1, after which no other page is navigated.
C30_OnlyEarlyExitIsEmptyFirstPage ==
    \A t \in Tasks :
        Search(t) /\ Ended(t) /\ ops[t].outcome.kind = "return" =>
            /\ ItemsOfPage(t, 1) # <<>>
                  => /\ Len(ops[t].gotoLog) = Clamp(ops[t].requested, 1, 20)
                     /\ \A k \in DOMAIN ops[t].gotoLog : ops[t].gotoLog[k] = k
            /\ ItemsOfPage(t, 1) = <<>> => ops[t].gotoLog = <<1>>

\* a search of three pages that went past its empty page 2
C30_Witness ==
    /\ Search(1) /\ Ended(1) /\ ops[1].outcome.kind = "return"
    /\ ItemsOfPage(1, 1) # <<>>
    /\ ItemsOfPage(1, 2) = <<>>
    /\ Len(ops[1].gotoLog) = 3

====
